---- MODULE Spec2Model ----
(***************************************************************************)
(* PlanilhadorBot (src/bot.py): a Telegram bot that reads a betting slip   *)
(* with an inference model, reconciles the extraction with the photo's     *)
(* caption and writes one row into the active tab of a spreadsheet.        *)
(*                                                                         *)
(* Python str values are sequences of one-character strings, so that       *)
(* lower(), replace(), join(), the "in" substring test and the caption     *)
(* regular expression are computed character by character.                 *)
(***************************************************************************)
EXTENDS Integers, Sequences, FiniteSets, TLC

(* ------------------------- string literals ----------------------------- *)
s_None == <<"N", "o", "n", "e">>
s_null == <<"n", "u", "l", "l">>
s_NA == <<"N", "/", "A">>
s_A_Definir == <<"A", " ", "D", "e", "f", "i", "n", "i", "r">>
s_Superbet == <<"S", "u", "p", "e", "r", "b", "e", "t">>
s_Bet365 == <<"B", "e", "t", "3", "6", "5">>
s_Pre_Live == <<"P", "r", "é", "-", "L", "i", "v", "e">>
s_hoje == <<"h", "o", "j", "e">>
s_mais_adicionar == <<"+", " ", "a", "d", "i", "c", "i", "o", "n", "a", "r">>
s_crear_apuesta == <<"c", "r", "e", "a", "r", " ", "a", "p", "u", "e", "s", "t", "a">>
s_bet_builder == <<"b", "e", "t", " ", "b", "u", "i", "l", "d", "e", "r">>
s_stake == <<"s", "t", "a", "k", "e">>
s_Pagina1 == <<"P", "á", "g", "i", "n", "a", "1">>
s_Data == <<"D", "a", "t", "a">>
s_Betano == <<"B", "e", "t", "a", "n", "o">>
s_Mais_Adicionar == <<"+", " ", "A", "d", "i", "c", "i", "o", "n", "a", "r">>
s_mais == <<"+">>
s_Adicionar == <<"A", "d", "i", "c", "i", "o", "n", "a", "r">>
s_BET_BUILDER == <<"B", "E", "T", " ", "B", "U", "I", "L", "D", "E", "R">>
s_Stake == <<"S", "t", "a", "k", "e">>
s_Team_A_vence == <<"T", "e", "a", "m", " ", "A", " ", "v", "e", "n", "c", "e">>
s_Liquid_vs_FaZe == <<"L", "i", "q", "u", "i", "d", " ", "v", "s", " ", "F", "a", "Z", "e">>
s_1_95 == <<"1", ".", "9", "5">>
s_2 == <<"2">>
s_1 == <<"1">>
s_0_75 == <<"0", ".", "7", "5">>
s_Hoje_1330 == <<"H", "o", "j", "e", ",", " ", "1", "3", ":", "3", "0">>
s_HOJE == <<"H", "O", "J", "E">>
s_12_06_25 == <<"1", "2", "/", "0", "6", "/", "2", "5">>
s_Amanha == <<"A", "m", "a", "n", "h", "ã">>
s_boa_sorte == <<"b", "o", "a", " ", "s", "o", "r", "t", "e">>
s_1_5u_essa_e_boa == <<"1", ".", "5", "u", " ", "e", "s", "s", "a", " ", "é", " ", "b", "o", "a">>
s_0_5u_ganhar_ate_1u == <<"0", ".", "5", "u", " ", "g", "a", "n", "h", "a", "r", " ", "a", "t", "é", " ", "1", "u">>
s_2_unidades == <<"2", " ", "u", "n", "i", "d", "a", "d", "e", "s">>
s_1v5_U == <<"1", ",", "5", " ", "U">>
s_Junho == <<"J", "u", "n", "h", "o">>
s_Maio == <<"M", "a", "i", "o">>
s_2025 == <<"2", "0", "2", "5">>

(* ------------------------- Python values ------------------------------- *)
(* A value is a record: t its type, s its characters (str, or the str() of *)
(* a JSON number), l its items (a list of strings).                        *)
None == [t |-> "None", s |-> <<>>, l |-> <<>>]
(* The marker of a key that the dict does not hold. *)
Missing == [t |-> "missing", s |-> <<>>, l |-> <<>>]
StrVal(chars) == [t |-> "str", s |-> chars, l |-> <<>>]
NumVal(chars) == [t |-> "num", s |-> chars, l |-> <<>>]
ListVal(items) == [t |-> "list", s |-> <<>>, l |-> items]

(* bool(v) *)
Truthy(v) ==
  CASE v.t = "None" -> FALSE
    [] v.t = "str" -> v.s # <<>>
    [] v.t = "list" -> v.l # <<>>
    [] v.t = "num" -> v.s \notin {<<"0">>, <<"0", ".", "0">>}
    [] OTHER -> FALSE

(* str(v) *)
str(v) == IF v.t = "None" THEN s_None ELSE v.s

UpperCase == <<"A", "B", "C", "D", "E", "F", "G", "H", "I", "J", "K", "L", "M",
               "N", "O", "P", "Q", "R", "S", "T", "U", "V", "W", "X", "Y", "Z">>
LowerCase == <<"a", "b", "c", "d", "e", "f", "g", "h", "i", "j", "k", "l", "m",
               "n", "o", "p", "q", "r", "s", "t", "u", "v", "w", "x", "y", "z">>

LowerChar(c) ==
  IF \E i \in 1..Len(UpperCase) : UpperCase[i] = c
    THEN LowerCase[CHOOSE i \in 1..Len(UpperCase) : UpperCase[i] = c]
    ELSE c

(* chars.lower() *)
lower(chars) == [i \in 1..Len(chars) |-> LowerChar(chars[i])]

(* chars.replace(a, b) for one-character a and b *)
replace(chars, a, b) == [i \in 1..Len(chars) |-> IF chars[i] = a THEN b ELSE chars[i]]

(* needle in chars *)
Contains(chars, needle) ==
  \E i \in 0..(Len(chars) - Len(needle)) :
    SubSeq(chars, i + 1, i + Len(needle)) = needle

RECURSIVE join(_, _)
(* sep.join(items) *)
join(sep, items) ==
  IF items = <<>> THEN <<>>
  ELSE IF Len(items) = 1 THEN items[1]
  ELSE items[1] \o sep \o join(sep, Tail(items))

(* dict.get(key, default) *)
get(d, key, default) == IF d[key] = Missing THEN default ELSE d[key]

(* ------------------------- numbers ------------------------------------- *)
(* A float is the integer number of 1/Scale units; the captions of the     *)
(* model carry at most FracDigits fractional digits.                       *)
FracDigits == 2

RECURSIVE Pow10(_)
Pow10(n) == IF n = 0 THEN 1 ELSE 10 * Pow10(n - 1)

Scale == Pow10(FracDigits)

Digits == <<"0", "1", "2", "3", "4", "5", "6", "7", "8", "9">>
IsDigit(c) == \E i \in 1..10 : Digits[i] = c
DigitValue(c) == (CHOOSE i \in 1..10 : Digits[i] = c) - 1

RECURSIVE IntOf(_)
(* the value of a run of digits *)
IntOf(chars) ==
  IF chars = <<>> THEN 0
  ELSE 10 * IntOf(SubSeq(chars, 1, Len(chars) - 1)) + DigitValue(chars[Len(chars)])

RECURSIVE DigitsOf(_)
(* the decimal digits of a natural number *)
DigitsOf(n) == IF n < 10 THEN <<Digits[n + 1]>> ELSE DigitsOf(n \div 10) \o <<Digits[(n % 10) + 1]>>

(* float(chars) for chars of the form digits or digits "." digits *)
float(chars) ==
  LET dots == {i \in 1..Len(chars) : chars[i] = "."}
      dot == IF dots = {} THEN Len(chars) + 1 ELSE CHOOSE i \in dots : TRUE
      frac == SubSeq(chars, dot + 1, Len(chars))
      padded == [i \in 1..FracDigits |-> IF i <= Len(frac) THEN frac[i] ELSE "0"]
  IN IntOf(SubSeq(chars, 1, dot - 1)) * Scale + IntOf(padded)

RECURSIVE StripZeros(_)
StripZeros(chars) ==
  IF Len(chars) > 1 /\ chars[Len(chars)] = "0"
    THEN StripZeros(SubSeq(chars, 1, Len(chars) - 1))
    ELSE chars

(* str(f) of a float: the shortest repr, which always shows a fraction *)
FloatStr(f) ==
  LET fd == DigitsOf(f % Scale)
      frac == [i \in 1..FracDigits |->
                 IF i <= FracDigits - Len(fd) THEN "0" ELSE fd[i - (FracDigits - Len(fd))]]
  IN DigitsOf(f \div Scale) \o <<".">> \o StripZeros(frac)

(* ------------------------- extract_unit_from_caption ------------------- *)
IsSpace(c) == c \in {" ", "\t", "\n"}
IsSep(c) == c \in {".", ","}
IsU(c) == c \in {"u", "U"}

(* the last index of the run of digits that starts at i (i - 1: no digit) *)
DigitRunEnd(chars, i) ==
  LET ends == {j \in (i - 1)..Len(chars) : \A k \in i..j : IsDigit(chars[k])}
  IN CHOOSE j \in ends : \A k \in ends : k <= j

(* the first index from i on that holds no white space *)
SkipSpaces(chars, i) ==
  LET stops == {j \in i..(Len(chars) + 1) : \A k \in i..(j - 1) : IsSpace(chars[k])}
  IN CHOOSE j \in stops : \A k \in stops : k <= j

(* The regular expression (\d+(?:[.,]\d+)?)\s*(u|unid\.?|unidades|unit|units)  *)
(* with IGNORECASE, tried at index i. Every alternative of the second group *)
(* starts with "u" and "u" is tried first, so a match ends at that letter.  *)
(* \d+ and \s* are greedy, and giving characters back never helps: what     *)
(* follows a shortened run is a digit or a space, not the next token.       *)
MatchAt(chars, i) ==
  LET e1 == DigitRunEnd(chars, i)
      hasFrac == /\ e1 >= i
                 /\ e1 + 2 <= Len(chars)
                 /\ IsSep(chars[e1 + 1])
                 /\ IsDigit(chars[e1 + 2])
      e2 == IF hasFrac THEN DigitRunEnd(chars, e1 + 2) ELSE e1
      k == SkipSpaces(chars, e2 + 1)
  IN [ok |-> e1 >= i /\ k <= Len(chars) /\ IsU(chars[k]),
      group1 |-> SubSeq(chars, i, e2),
      end |-> k]

RECURSIVE findall(_, _)
(* re.findall: the first groups of the non-overlapping matches, left to right *)
findall(chars, i) ==
  IF i > Len(chars) THEN <<>>
  ELSE LET m == MatchAt(chars, i)
       IN IF m.ok THEN <<m.group1>> \o findall(chars, m.end + 1)
          ELSE findall(chars, i + 1)

RECURSIVE max_unit(_, _)
(* the loop of lines 205-213: float() cannot fail on a token of the pattern *)
max_unit(matches, acc) ==
  IF matches = <<>> THEN acc
  ELSE LET unit_val == float(replace(matches[1], ",", "."))
       IN max_unit(Tail(matches), IF unit_val > acc THEN unit_val ELSE acc)

extract_unit_from_caption(caption) ==
  IF ~Truthy(caption) THEN None
  ELSE LET matches == findall(caption.s, 1)
       IN IF matches = <<>> THEN None
          ELSE StrVal(FloatStr(max_unit(matches, 0)))

(* ------------------------- the inference response ---------------------- *)
(* The keys of the JSON object asked for by build_gemini_prompt. *)
Keys == {"evento_times", "aposta_descricao_completa", "odd", "unidade_imagem",
         "casa_de_aposta_tentativa_gemini", "data_hora_evento_imagem",
         "todos_textos_visiveis"}

EmptyDict == [k \in Keys |-> Missing]

(* The response text is a sequence of chunks: an opening fence with the    *)
(* language tag, a bare fence, a JSON object, a JSON value that is no      *)
(* object, or other text. White space between chunks is not modelled:      *)
(* strip() and json.loads skip it.                                         *)
FenceJson == [k |-> "fence_json", isdict |-> FALSE, d |-> EmptyDict]
Fence == [k |-> "fence", isdict |-> FALSE, d |-> EmptyDict]
OtherText == [k |-> "text", isdict |-> FALSE, d |-> EmptyDict]
JsonObject(d) == [k |-> "json", isdict |-> TRUE, d |-> d]
JsonScalar == [k |-> "json", isdict |-> FALSE, d |-> EmptyDict]

(* lines 233-235: startswith cuts an opening fence that carries the json   *)
(* tag, endswith a closing fence; an opening fence without the tag stays.  *)
strip_fences(text) ==
  LET t1 == IF text # <<>> /\ text[1].k = "fence_json" THEN Tail(text) ELSE text
  IN IF t1 # <<>> /\ t1[Len(t1)].k = "fence" THEN SubSeq(t1, 1, Len(t1) - 1) ELSE t1

(* json.loads with the exception swallowed: the {} of line 218 stays *)
json_loads_lenient(text) ==
  IF Len(text) = 1 /\ text[1].k = "json"
    THEN [ok |-> TRUE, isdict |-> text[1].isdict, d |-> text[1].d]
    ELSE [ok |-> TRUE, isdict |-> TRUE, d |-> EmptyDict]

(* json.loads: ok is FALSE for JSONDecodeError *)
json_loads(text) ==
  IF Len(text) = 1 /\ text[1].k = "json"
    THEN [ok |-> TRUE, isdict |-> text[1].isdict, d |-> text[1].d]
    ELSE [ok |-> FALSE, isdict |-> FALSE, d |-> EmptyDict]

(* ------------------------- reconciliation (lines 251-290) -------------- *)
TwoDigits(n) == <<Digits[(n \div 10) + 1], Digits[(n % 10) + 1]>>

(* datetime.now().strftime("%d/%m/%y") *)
strftime(date) ==
  TwoDigits(date.day) \o <<"/">> \o TwoDigits(date.month) \o <<"/">> \o TwoDigits(date.year % 100)

(* data_col_b with the test for "hoje" made on the text as it is *)
data_col_b_case_sensitive(d, date) ==
  LET data_aposta_str == get(d, "data_hora_evento_imagem", StrVal(<<>>))
  IN IF Truthy(data_aposta_str) /\ ~Contains(data_aposta_str.s, s_hoje)
       THEN data_aposta_str
       ELSE StrVal(strftime(date))

data_col_b(d, date) ==
  LET data_aposta_str == get(d, "data_hora_evento_imagem", StrVal(<<>>))
  IN IF Truthy(data_aposta_str) /\ ~Contains(lower(data_aposta_str.s), s_hoje)
       THEN data_aposta_str
       ELSE StrVal(strftime(date))

entrada_col_c(d) == get(d, "aposta_descricao_completa", StrVal(s_NA))

(* the items a for loop takes from v: those of a list, the characters of a str *)
Iter(v) == IF v.t = "str" THEN [i \in 1..Len(v.s) |-> <<v.s[i]>>] ELSE v.l

texto_completo_para_analise(d) ==
  LET todos_textos_visiveis == Iter(get(d, "todos_textos_visiveis", ListVal(<<>>)))
      lowered == [i \in 1..Len(todos_textos_visiveis) |-> lower(todos_textos_visiveis[i])]
  IN join(<<" ">>, lowered) \o <<" ">> \o lower(str(entrada_col_c(d)))
       \o <<" ">> \o lower(str(get(d, "evento_times", StrVal(<<>>))))

(* casa_col_d with the two keyword rules in the other order *)
casa_col_d_bet365_first(d) ==
  LET gemini == get(d, "casa_de_aposta_tentativa_gemini", StrVal(s_A_Definir))
      texto == texto_completo_para_analise(d)
  IN IF gemini \in {StrVal(s_A_Definir), StrVal(s_null), None, StrVal(<<>>)}
       THEN IF \E keyword \in {s_crear_apuesta, s_bet_builder, s_stake} :
                 Contains(texto, keyword)
              THEN StrVal(s_Bet365)
            ELSE IF Contains(texto, s_mais_adicionar) THEN StrVal(s_Superbet)
            ELSE gemini
       ELSE gemini

casa_col_d(d) ==
  LET gemini == get(d, "casa_de_aposta_tentativa_gemini", StrVal(s_A_Definir))
      texto == texto_completo_para_analise(d)
  IN IF gemini \in {StrVal(s_A_Definir), StrVal(s_null), None, StrVal(<<>>)}
       THEN IF Contains(texto, s_mais_adicionar) THEN StrVal(s_Superbet)
            ELSE IF \E keyword \in {s_crear_apuesta, s_bet_builder, s_stake} :
                      Contains(texto, keyword)
              THEN StrVal(s_Bet365)
            ELSE gemini
       ELSE gemini

odd_col_e(d) ==
  LET odd_str == str(get(d, "odd", StrVal(s_NA)))
  IN IF odd_str # s_NA THEN StrVal(replace(odd_str, ".", ",")) ELSE StrVal(s_NA)

NullLike == {s_NA, s_None, s_null, <<>>}

(* unidade_col_f with the unit of the image tried before that of the caption *)
unidade_col_f_image_first(d, caption) ==
  LET unidade_da_legenda == extract_unit_from_caption(caption)
      unidade_gemini_str == str(get(d, "unidade_imagem", StrVal(s_NA)))
      unidade_final_str ==
        IF unidade_gemini_str \notin NullLike THEN unidade_gemini_str
        ELSE IF Truthy(unidade_da_legenda) THEN unidade_da_legenda.s
        ELSE s_NA
  IN IF unidade_final_str \notin NullLike
       THEN StrVal(replace(unidade_final_str, ".", ","))
       ELSE StrVal(s_NA)

unidade_col_f(d, caption) ==
  LET unidade_da_legenda == extract_unit_from_caption(caption)
      unidade_gemini_str == str(get(d, "unidade_imagem", StrVal(s_NA)))
      unidade_final_str ==
        IF Truthy(unidade_da_legenda) THEN unidade_da_legenda.s
        ELSE IF unidade_gemini_str \notin NullLike THEN unidade_gemini_str
        ELSE s_NA
  IN IF unidade_final_str \notin NullLike
       THEN StrVal(replace(unidade_final_str, ".", ","))
       ELSE StrVal(s_NA)

status_col_g == StrVal(s_Pre_Live)

row_to_insert_values(d, caption, date) ==
  <<StrVal(<<>>), data_col_b(d, date), entrada_col_c(d), casa_col_d(d), odd_col_e(d),
    unidade_col_f(d, caption), status_col_g>>

(* The exceptions of lines 251-290, which the handler's except of line 309  *)
(* catches: .get on a value that is no dict, .lower() on a date that is no  *)
(* str, and the for loop over visible texts that are neither list nor str.  *)
reconcile_raises(data) ==
  \/ ~data.isdict
  \/ LET data_aposta_str == get(data.d, "data_hora_evento_imagem", StrVal(<<>>))
     IN Truthy(data_aposta_str) /\ data_aposta_str.t # "str"
  \/ /\ get(data.d, "casa_de_aposta_tentativa_gemini", StrVal(s_A_Definir))
          \in {StrVal(s_A_Definir), StrVal(s_null), None, StrVal(<<>>)}
     /\ get(data.d, "todos_textos_visiveis", ListVal(<<>>)).t \notin {"list", "str"}

(* ------------------------- the spreadsheet ------------------------------ *)
(* sheet maps each tab of the spreadsheet to its column B, the anchor       *)
(* column: one text per row, <<>> for an empty cell. It is the only column  *)
(* that get_first_empty_row_in_col reads.                                   *)
NoneRow == -1

RECURSIVE TrimCells(_)
(* values().get returns a column up to its last cell that holds a value *)
TrimCells(cells) ==
  IF cells # <<>> /\ cells[Len(cells)] = <<>>
    THEN TrimCells(SubSeq(cells, 1, Len(cells) - 1))
    ELSE cells

(* values().update of one cell: a null value leaves the cell as it is *)
WriteCell(cells, row, v) ==
  LET n == IF row > Len(cells) THEN row ELSE Len(cells)
      old(i) == IF i <= Len(cells) THEN cells[i] ELSE <<>>
  IN TrimCells([i \in 1..n |-> IF i = row /\ v # None THEN str(v) ELSE old(i)])

(* api_ok: whether the request to the Sheets API succeeds *)
get_first_empty_row_in_col(service, cells_of, tab_name, api_ok) ==
  IF ~service THEN NoneRow
  ELSE IF api_ok /\ tab_name \in DOMAIN cells_of THEN Len(cells_of[tab_name]) + 1
  ELSE NoneRow

(* whether update_sheet_row returns True *)
update_sheet_row_ok(service, cells_of, tab_name, row_number, api_ok) ==
  service /\ api_ok /\ tab_name \in DOMAIN cells_of /\ row_number >= 1

(* the spreadsheet after update_sheet_row: column B takes the second value *)
update_sheet_row(service, cells_of, tab_name, row_number, values_for_row, api_ok) ==
  IF update_sheet_row_ok(service, cells_of, tab_name, row_number, api_ok)
    THEN [cells_of EXCEPT ![tab_name] = WriteCell(@, row_number, values_for_row[2])]
    ELSE cells_of

(* The spreadsheet after ensure_sheet_headers. outcome is what the API      *)
(* lets through: "ok", "created" (the tab is added, the header request      *)
(* fails) or "failed". Row 1 of column B becomes the header "Data".         *)
ensure_sheet_headers(service, cells_of, tab_name, outcome) ==
  IF ~service \/ outcome = "failed" THEN cells_of
  ELSE LET created == IF tab_name \in DOMAIN cells_of THEN cells_of
                      ELSE [t \in DOMAIN cells_of \cup {tab_name} |->
                              IF t = tab_name THEN <<>> ELSE cells_of[t]]
       IN IF outcome = "created" THEN created
          ELSE [created EXCEPT ![tab_name] = WriteCell(@, 1, StrVal(s_Data))]

HeaderOutcomes == {"ok", "created", "failed"}

(* ------------------------- inputs --------------------------------------- *)
(* The example response of build_gemini_prompt (lines 187-195). *)
ExampleDict ==
  [k \in Keys |->
     CASE k = "evento_times" -> StrVal(s_Liquid_vs_FaZe)
       [] k = "aposta_descricao_completa" -> StrVal(s_Team_A_vence)
       [] k = "odd" -> StrVal(s_1_95)
       [] k = "unidade_imagem" -> StrVal(s_1)
       [] k = "casa_de_aposta_tentativa_gemini" -> StrVal(s_A_Definir)
       [] k = "data_hora_evento_imagem" -> StrVal(s_Hoje_1330)
       [] k = "todos_textos_visiveis" -> ListVal(<<s_Mais_Adicionar>>)]

(* the longest list of visible texts, and the most updates the bot takes *)
MaxTexts == 2
MaxUpdates == 3

Fragments == {s_Mais_Adicionar, s_BET_BUILDER, s_mais, s_Adicionar}
TextLists == UNION {[1..n -> Fragments] : n \in 0..MaxTexts}

GuessValues == {Missing, None, StrVal(<<>>), StrVal(s_null), StrVal(s_A_Definir),
                StrVal(s_Superbet), StrVal(s_Betano)}
TextsValues == {Missing, None, StrVal(<<>>)} \cup {ListVal(l) : l \in TextLists}
DescriptionValues == {Missing, None, StrVal(s_Team_A_vence), StrVal(s_Stake)}
EventValues == {Missing, None, StrVal(s_Liquid_vs_FaZe)}
OddValues == {Missing, None, StrVal(s_1_95), NumVal(s_1_95), NumVal(s_2), StrVal(s_NA)}
UnitValues == {Missing, None, StrVal(<<>>), StrVal(s_NA), StrVal(s_null), StrVal(s_1),
               NumVal(s_0_75)}
DateValues == {Missing, None, StrVal(<<>>), StrVal(s_Hoje_1330), StrVal(s_HOJE),
               StrVal(s_hoje), StrVal(s_12_06_25), StrVal(s_Amanha), NumVal(s_2025)}
Captions == {None, StrVal(<<>>), StrVal(s_boa_sorte), StrVal(s_1_5u_essa_e_boa),
             StrVal(s_0_5u_ganhar_ate_1u), StrVal(s_2_unidades), StrVal(s_1v5_U)}

(* The extractions of the reconciliation runs: every combination of the    *)
(* fields the bookmaker is decided from, every pattern of missing and null *)
(* fields, and every value of the date, the odds and the unit, the other   *)
(* fields being those of the example.                                      *)
BookmakerDicts ==
  {[ExampleDict EXCEPT !["casa_de_aposta_tentativa_gemini"] = g,
                       !["todos_textos_visiveis"] = t,
                       !["aposta_descricao_completa"] = c,
                       !["evento_times"] = e] :
     g \in GuessValues, t \in TextsValues, c \in DescriptionValues, e \in EventValues}
AbsenceDicts ==
  {[k \in Keys |-> IF p[k] = "value" THEN ExampleDict[k]
                   ELSE IF p[k] = "null" THEN None ELSE Missing] :
     p \in [Keys -> {"value", "null", "missing"}]}
FieldDicts ==
  {[ExampleDict EXCEPT !["data_hora_evento_imagem"] = v] : v \in DateValues}
    \cup {[ExampleDict EXCEPT !["odd"] = v] : v \in OddValues}
UnitDicts == {[ExampleDict EXCEPT !["unidade_imagem"] = v] : v \in UnitValues}

(* the shapes of a response text around one JSON object *)
ResponseShapes(d) ==
  {<<JsonObject(d)>>, <<FenceJson, JsonObject(d), Fence>>, <<FenceJson, JsonObject(d)>>,
   <<JsonObject(d), Fence>>, <<Fence, JsonObject(d), Fence>>,
   <<OtherText, JsonObject(d)>>, <<OtherText>>, <<JsonScalar>>, <<>>}

Photo(caption, response, inference_ok) ==
  [kind |-> "photo", args |-> <<>>, caption |-> caption, response |-> response,
   inference_ok |-> inference_ok]
Command(kind, args) ==
  [kind |-> kind, args |-> args, caption |-> None, response |-> <<>>,
   inference_ok |-> TRUE]
NoUpdate == Command("none", <<>>)

ReconcilePhotos ==
  {Photo(None, <<JsonObject(d)>>, TRUE) : d \in BookmakerDicts \cup AbsenceDicts \cup FieldDicts}
    \cup {Photo(c, <<JsonObject(d)>>, TRUE) : c \in Captions, d \in UnitDicts}
    \cup {Photo(c, r, ok) : c \in {None, StrVal(s_1_5u_essa_e_boa)},
                            r \in ResponseShapes(ExampleDict), ok \in BOOLEAN}

(* the photos of the bot's runs *)
BotDicts ==
  {ExampleDict,
   [ExampleDict EXCEPT !["data_hora_evento_imagem"] = StrVal(s_12_06_25)],
   [ExampleDict EXCEPT !["casa_de_aposta_tentativa_gemini"] = None,
                       !["todos_textos_visiveis"] = None]}
BotPhotos ==
  {Photo(c, <<JsonObject(d)>>, TRUE) : c \in {None, StrVal(s_1_5u_essa_e_boa)}, d \in BotDicts}
    \cup {Photo(None, r, TRUE) :
            r \in {<<FenceJson, JsonObject(ExampleDict), Fence>>,
                   <<Fence, JsonObject(ExampleDict), Fence>>, <<OtherText>>, <<JsonScalar>>}}
    \cup {Photo(None, <<JsonObject(ExampleDict)>>, FALSE)}

(* the arguments of /pagina *)
ArgLists == {<<>>, <<s_Junho>>, <<s_Junho, s_2025>>}

(* what the environment holds at startup: the .env file and credentials.json *)
Environments ==
  [TELEGRAM_BOT_TOKEN : BOOLEAN, GEMINI_API_KEY : BOOLEAN, GOOGLE_SHEET_ID : BOOLEAN,
   credentials : BOOLEAN,
   GOOGLE_SHEET_TAB_NAME : {Missing, StrVal(<<>>), StrVal(s_Maio)}]

Dates == <<[day |-> 4, month |-> 11, year |-> 2026], [day |-> 5, month |-> 11, year |-> 2026]>>

(* ------------------------- state ---------------------------------------- *)
VARIABLES
  env,                    \* the configuration read at import (lines 17-25)
  pc,                     \* "main", "stopped", "post_init", "idle" (polling), or the
                          \* place of handle_image: "handle_image", "lookup", "write", "confirm"
  sheets_service,         \* whether the global holds a service (line 37)
  gemini_model,           \* whether the global holds a model (line 38)
  ACTIVE_SHEET_TAB_NAME,  \* line 27
  sheet,                  \* the spreadsheet
  now,                    \* the index in Dates of the day of datetime.now()
  n_updates,              \* the updates taken from the queue so far
  update,                 \* the update last taken from the queue
  image_caption,          \* locals of handle_image
  data_from_gemini,
  target_row_number,
  unidade_da_legenda,
  success_write,
  calls,                  \* the ledger operations of the running or last handle_image
  replies,                \* the messages it sent
  cmd_calls,              \* the ledger operations of the last command
  cmd_replies             \* the messages it sent

vars == <<env, pc, sheets_service, gemini_model, ACTIVE_SHEET_TAB_NAME, sheet, now,
          n_updates, update, image_caption, data_from_gemini, target_row_number,
          unidade_da_legenda, success_write, calls, replies, cmd_calls, cmd_replies>>

image_locals == <<image_caption, data_from_gemini, target_row_number, unidade_da_legenda,
                  success_write>>
globals == <<sheets_service, gemini_model, ACTIVE_SHEET_TAB_NAME>>

Call(op, tab, row, values, ret) ==
  [op |-> op, tab |-> tab, row |-> row, values |-> values, ret |-> ret]
Reply(msg, tab, row) == [msg |-> msg, tab |-> tab, row |-> row]

NoData == [ok |-> FALSE, isdict |-> FALSE, d |-> EmptyDict]

(* lines 20-38: the module's globals after import *)
Init ==
  /\ env \in Environments
  /\ pc = "main"
  /\ sheets_service = FALSE
  /\ gemini_model = FALSE
  /\ ACTIVE_SHEET_TAB_NAME =
       IF env.GOOGLE_SHEET_TAB_NAME = Missing THEN s_Pagina1 ELSE env.GOOGLE_SHEET_TAB_NAME.s
  /\ sheet = [t \in {s_Pagina1} |-> <<>>]
  /\ now = 1
  /\ n_updates = 0
  /\ update = NoUpdate
  /\ image_caption = None
  /\ data_from_gemini = NoData
  /\ target_row_number = NoneRow
  /\ unidade_da_legenda = None
  /\ success_write = FALSE
  /\ calls = <<>>
  /\ replies = <<>>
  /\ cmd_calls = <<>>
  /\ cmd_replies = <<>>

(* ------------------------- startup -------------------------------------- *)
(* main, lines 328-355, with the two initialisers it calls (lines 40-66) *)
Main ==
  /\ pc = "main"
  /\ sheets_service' = env.credentials
  /\ gemini_model' = env.GEMINI_API_KEY
  /\ IF ~env.TELEGRAM_BOT_TOKEN \/ ~env.GOOGLE_SHEET_ID
       THEN pc' = "stopped" /\ UNCHANGED ACTIVE_SHEET_TAB_NAME
       ELSE /\ ACTIVE_SHEET_TAB_NAME' =
                 IF ACTIVE_SHEET_TAB_NAME = <<>> THEN s_Pagina1 ELSE ACTIVE_SHEET_TAB_NAME
            /\ pc' = IF env.credentials THEN "post_init" ELSE "stopped"
  /\ UNCHANGED <<env, sheet, now, n_updates, update, image_locals, calls, replies,
                 cmd_calls, cmd_replies>>

(* post_init, lines 313-326 *)
PostInit ==
  /\ pc = "post_init"
  /\ \E outcome \in HeaderOutcomes :
       IF sheets_service /\ env.GOOGLE_SHEET_ID /\ ACTIVE_SHEET_TAB_NAME # <<>>
         THEN /\ sheet' = ensure_sheet_headers(sheets_service, sheet, ACTIVE_SHEET_TAB_NAME, outcome)
              /\ cmd_calls' = <<Call("ensure_sheet_headers", ACTIVE_SHEET_TAB_NAME, 1, <<>>, 0)>>
         ELSE UNCHANGED <<sheet, cmd_calls>>
  /\ pc' = "idle"
  /\ UNCHANGED <<env, globals, now, n_updates, update, image_locals, calls, replies,
                 cmd_replies>>

(* ------------------------- dispatch ------------------------------------- *)
(* the dispatch of an Application built with concurrent_updates(True) *)
CanDispatchConcurrent == pc \in {"idle", "handle_image", "lookup", "write", "confirm"}

(* The Application of lines 349-355 is built without concurrent_updates:   *)
(* it takes the next update only when the handler of the last has ended.   *)
CanDispatch == pc = "idle"

(* start_command, lines 138-146 *)
StartCommand ==
  /\ CanDispatch
  /\ n_updates < MaxUpdates
  /\ n_updates' = n_updates + 1
  /\ update' = Command("start", <<>>)
  /\ cmd_replies' = <<Reply("start", ACTIVE_SHEET_TAB_NAME, 0)>>
  /\ cmd_calls' = <<>>
  /\ UNCHANGED <<env, pc, globals, sheet, now, image_locals, calls, replies>>

(* line 150 without its test *)
has_args_always(args) == TRUE

(* line 150: context.args holds something *)
has_args(args) == args # <<>>

(* change_page_command, lines 148-164 *)
ChangePageCommand ==
  /\ CanDispatch
  /\ n_updates < MaxUpdates
  /\ n_updates' = n_updates + 1
  /\ \E args \in ArgLists, outcome \in HeaderOutcomes :
       /\ update' = Command("pagina", args)
       /\ IF ~has_args(args)
            THEN /\ cmd_replies' = <<Reply("usage", <<>>, 0)>>
                 /\ cmd_calls' = <<>>
                 /\ UNCHANGED <<ACTIVE_SHEET_TAB_NAME, sheet>>
            ELSE LET new_tab_name == join(<<" ">>, args)
                 IN /\ ACTIVE_SHEET_TAB_NAME' = new_tab_name
                    /\ IF sheets_service /\ env.GOOGLE_SHEET_ID
                         THEN /\ sheet' = ensure_sheet_headers(sheets_service, sheet,
                                                               new_tab_name, outcome)
                              /\ cmd_calls' = <<Call("ensure_sheet_headers", new_tab_name,
                                                     1, <<>>, 0)>>
                              /\ cmd_replies' = <<Reply("changed", new_tab_name, 0),
                                                  Reply("headers", new_tab_name, 0)>>
                         ELSE /\ cmd_calls' = <<>>
                              /\ cmd_replies' = <<Reply("changed", new_tab_name, 0),
                                                  Reply("no_service", new_tab_name, 0)>>
                              /\ UNCHANGED sheet
  /\ UNCHANGED <<env, pc, sheets_service, gemini_model, now, image_locals, calls, replies>>

(* A photo is taken from the queue (line 353). One frame of handle_image   *)
(* is modelled, so the next photo waits for the last to be handled.        *)
TakePhoto(photos) ==
  /\ CanDispatch
  /\ pc = "idle"
  /\ n_updates < MaxUpdates
  /\ n_updates' = n_updates + 1
  /\ \E u \in photos : update' = u
  /\ pc' = "handle_image"
  /\ UNCHANGED <<env, globals, sheet, now, image_locals, calls, replies, cmd_calls,
                 cmd_replies>>

(* ------------------------- handle_image --------------------------------- *)
(* line 247 without its test *)
no_target_row_never(row) == FALSE

(* line 247: not target_row_number *)
no_target_row(row) == row = NoneRow \/ row = 0

(* lines 216-242: the configuration checks, the inference call and the parse *)
HandleImageBegin ==
  /\ pc = "handle_image"
  /\ calls' = <<>>
  /\ target_row_number' = NoneRow
  /\ unidade_da_legenda' = None
  /\ success_write' = FALSE
  /\ IF ~gemini_model
       THEN /\ replies' = <<Reply("no_model", <<>>, 0)>>
            /\ pc' = "idle"
            /\ data_from_gemini' = NoData
            /\ UNCHANGED image_caption
     ELSE IF ~sheets_service
       THEN /\ replies' = <<Reply("no_sheets", <<>>, 0)>>
            /\ pc' = "idle"
            /\ data_from_gemini' = NoData
            /\ UNCHANGED image_caption
     ELSE /\ image_caption' = update.caption
          /\ LET analysing == Reply("analysing", ACTIVE_SHEET_TAB_NAME, 0)
                 parsed == json_loads(strip_fences(update.response))
             IN IF ~update.inference_ok
                  THEN /\ replies' = <<analysing, Reply("error", <<>>, 0)>>
                       /\ data_from_gemini' = NoData
                       /\ pc' = "idle"
                ELSE IF ~parsed.ok
                  THEN /\ replies' = <<analysing, Reply("malformed", <<>>, 0)>>
                       /\ data_from_gemini' = NoData
                       /\ pc' = "idle"
                ELSE /\ replies' = <<analysing>>
                     /\ data_from_gemini' = parsed
                     /\ pc' = "lookup"
  /\ UNCHANGED <<env, globals, sheet, now, n_updates, update, cmd_calls, cmd_replies>>

(* lines 244-249 *)
HandleImageLookup ==
  /\ pc = "lookup"
  /\ \E api_ok \in BOOLEAN :
       LET row == get_first_empty_row_in_col(sheets_service, sheet, ACTIVE_SHEET_TAB_NAME, api_ok)
       IN /\ target_row_number' = row
          /\ calls' = Append(calls, Call("get_first_empty_row_in_col", ACTIVE_SHEET_TAB_NAME,
                                         0, <<>>, row))
          /\ IF no_target_row(row)
               THEN /\ replies' = Append(replies, Reply("no_row", ACTIVE_SHEET_TAB_NAME, 0))
                    /\ pc' = "idle"
               ELSE /\ pc' = "write"
                    /\ UNCHANGED replies
  /\ UNCHANGED <<env, globals, sheet, now, n_updates, update, image_caption, data_from_gemini,
                 unidade_da_legenda, success_write, cmd_calls, cmd_replies>>

(* lines 251-295: the reconciliation and the write *)
HandleImageWrite ==
  /\ pc = "write"
  /\ IF reconcile_raises(data_from_gemini)
       THEN /\ replies' = Append(replies, Reply("error", <<>>, 0))
            /\ pc' = "idle"
            /\ UNCHANGED <<sheet, calls, unidade_da_legenda, success_write>>
       ELSE \E api_ok \in BOOLEAN :
              LET values == row_to_insert_values(data_from_gemini.d, image_caption, Dates[now])
                  ok == update_sheet_row_ok(sheets_service, sheet, ACTIVE_SHEET_TAB_NAME,
                                            target_row_number, api_ok)
              IN /\ unidade_da_legenda' = extract_unit_from_caption(image_caption)
                 /\ sheet' = update_sheet_row(sheets_service, sheet, ACTIVE_SHEET_TAB_NAME,
                                              target_row_number, values, api_ok)
                 /\ calls' = Append(calls, Call("update_sheet_row", ACTIVE_SHEET_TAB_NAME,
                                                target_row_number, values,
                                                IF ok THEN 1 ELSE 0))
                 /\ success_write' = ok
                 /\ pc' = "confirm"
                 /\ UNCHANGED replies
  /\ UNCHANGED <<env, globals, now, n_updates, update, image_caption, data_from_gemini,
                 target_row_number, cmd_calls, cmd_replies>>

(* lines 297-307 *)
HandleImageConfirm ==
  /\ pc = "confirm"
  /\ replies' = Append(replies,
                       IF success_write
                         THEN Reply("added", ACTIVE_SHEET_TAB_NAME, target_row_number)
                         ELSE Reply("write_failed", ACTIVE_SHEET_TAB_NAME, 0))
  /\ pc' = "idle"
  /\ UNCHANGED <<env, globals, sheet, now, n_updates, update, image_locals, calls,
                 cmd_calls, cmd_replies>>

(* midnight passes *)
Tick ==
  /\ now < Len(Dates)
  /\ now' = now + 1
  /\ UNCHANGED <<env, pc, globals, sheet, n_updates, update, image_locals, calls, replies,
                 cmd_calls, cmd_replies>>

TakeBotPhoto == TakePhoto(BotPhotos)

Next ==
  \/ Main
  \/ PostInit
  \/ StartCommand
  \/ ChangePageCommand
  \/ TakeBotPhoto
  \/ HandleImageBegin
  \/ HandleImageLookup
  \/ HandleImageWrite
  \/ HandleImageConfirm
  \/ Tick

Spec == Init /\ [][Next]_vars

(* ------------------------- one photo ------------------------------------ *)
(* The bot after a startup with every service configured and the headers   *)
(* of the default tab written, handling one photo of ReconcilePhotos.      *)
InitImage ==
  /\ env = [TELEGRAM_BOT_TOKEN |-> TRUE, GEMINI_API_KEY |-> TRUE, GOOGLE_SHEET_ID |-> TRUE,
            credentials |-> TRUE, GOOGLE_SHEET_TAB_NAME |-> Missing]
  /\ pc = "handle_image"
  /\ sheets_service = TRUE
  /\ gemini_model = TRUE
  /\ ACTIVE_SHEET_TAB_NAME = s_Pagina1
  /\ sheet = [t \in {s_Pagina1} |-> <<s_Data>>]
  /\ now = 1
  /\ n_updates = MaxUpdates
  /\ update \in ReconcilePhotos
  /\ image_caption = None
  /\ data_from_gemini = NoData
  /\ target_row_number = NoneRow
  /\ unidade_da_legenda = None
  /\ success_write = FALSE
  /\ calls = <<>>
  /\ replies = <<>>
  /\ cmd_calls = <<Call("ensure_sheet_headers", s_Pagina1, 1, <<>>, 0)>>
  /\ cmd_replies = <<>>

NextImage ==
  \/ HandleImageBegin
  \/ HandleImageLookup
  \/ HandleImageWrite
  \/ HandleImageConfirm
  \/ Tick

SpecImage == InitImage /\ [][NextImage]_vars

(* ========================= the claims =================================== *)
LastOf(seq) == seq[Len(seq)]

(* the rows handed to update_sheet_row by the running or last handle_image *)
WriteCalls == {i \in 1..Len(calls) : calls[i].op = "update_sheet_row"}
LookupCalls == {i \in 1..Len(calls) : calls[i].op = "get_first_empty_row_in_col"}

(* handle_image has begun to handle the update last taken *)
PhotoBegun == update.kind = "photo" /\ pc \in {"idle", "lookup", "write", "confirm"}

(* the response text, its fences stripped, is one JSON value *)
ParseableResponse ==
  LET text == strip_fences(update.response)
  IN Len(text) = 1 /\ text[1].k = "json"

(* C1: when the response text, its code-fence markers stripped, is no      *)
(* parseable JSON, handle_image ends having called neither                 *)
(* get_first_empty_row_in_col nor update_sheet_row, and its last message   *)
(* reports the response that could not be understood.                      *)
C1_MalformedResponseWritesNothing ==
  (PhotoBegun /\ gemini_model /\ sheets_service /\ update.inference_ok /\ ~ParseableResponse)
    => /\ pc = "idle"
       /\ calls = <<>>
       /\ replies # <<>>
       /\ LastOf(replies).msg = "malformed"

C1_Witness ==
  /\ PhotoBegun
  /\ gemini_model
  /\ sheets_service
  /\ update.response = <<Fence, JsonObject(ExampleDict), Fence>>
  /\ n_updates >= 2
  /\ LastOf(replies).msg = "malformed"

(* ------------------------- C2 ------------------------------------------ *)
Sentinels == {Missing, None, StrVal(<<>>), StrVal(s_null), StrVal(s_A_Definir)}

(* the model's guess names an operator: a text that is none of the "nothing" values *)
RecognisedGuess(d) ==
  LET guess == d["casa_de_aposta_tentativa_gemini"]
  IN guess \notin Sentinels /\ guess.t = "str"

(* C2: in every row handed to update_sheet_row the bookmaker cell, the    *)
(* fourth, is the name of an operator (Superbet, Bet365 or the operator   *)
(* the model recognised) or "A Definir": never null, never empty.         *)
C2_BookmakerCellIsOperatorOrSentinel ==
  \A i \in WriteCalls :
    LET cell == calls[i].values[4]
    IN \/ cell \in {StrVal(s_Superbet), StrVal(s_Bet365), StrVal(s_A_Definir)}
       \/ RecognisedGuess(data_from_gemini.d) /\ cell = data_from_gemini.d["casa_de_aposta_tentativa_gemini"]

(* ------------------------- C3 ------------------------------------------ *)
(* every field of the parsed response is absent, null or of its JSON type *)
FieldsAbsentOrTyped ==
  /\ data_from_gemini.ok
  /\ data_from_gemini.isdict
  /\ \A k \in Keys :
       LET v == data_from_gemini.d[k]
       IN \/ v \in {Missing, None}
          \/ IF k = "todos_textos_visiveis" THEN v.t = "list"
             ELSE IF k \in {"odd", "unidade_imagem"} THEN v.t \in {"str", "num"}
             ELSE v.t = "str"

Absent(k) == data_from_gemini.d[k] \in {Missing, None}

(* C3: once the next row is found, a response with any fields absent      *)
(* (missing or null) is reconciled without an exception into a row of     *)
(* seven cells whose description, odds and units are the value or "N/A"   *)
(* (not null, not "None") and whose status is "Pré-Live".                 *)
C3_AbsentFieldsGiveCompleteRecord ==
  (PhotoBegun /\ pc \in {"idle", "confirm"} /\ FieldsAbsentOrTyped
     /\ LookupCalls # {} /\ target_row_number >= 1)
    => /\ \A j \in 1..Len(replies) : replies[j].msg # "error"
       /\ WriteCalls # {}
       /\ \A i \in WriteCalls :
            LET row == calls[i].values
            IN /\ Len(row) = 7
               /\ row[3].t = "str"
               /\ Absent("aposta_descricao_completa") => row[3] = StrVal(s_NA)
               /\ row[5].t = "str" /\ row[5].s # s_None
               /\ Absent("odd") => row[5] = StrVal(s_NA)
               /\ row[6].t = "str" /\ row[6].s # s_None
               /\ row[7] = StrVal(s_Pre_Live)

(* ------------------------- C4 ------------------------------------------ *)
(* C4: the units cell, the sixth, is the unit of the caption when          *)
(* extract_unit_from_caption finds one, else the unit the model read in    *)
(* the image when that is present and not null-like, else "N/A"; a chosen  *)
(* unit has its periods replaced by commas. "1" in the image and the       *)
(* caption "1.5u essa é boa" give "1,5"; "1" and no caption give "1".      *)
C4_UnitsPrecedence ==
  \A i \in WriteCalls :
    LET cell == calls[i].values[6]
        from_caption == extract_unit_from_caption(image_caption)
        from_image == data_from_gemini.d["unidade_imagem"]
        image_usable == from_image \notin {Missing, None} /\ from_image.s \notin NullLike
    IN /\ from_caption # None => cell = StrVal(replace(from_caption.s, ".", ","))
       /\ (from_caption = None /\ image_usable) => cell = StrVal(replace(from_image.s, ".", ","))
       /\ (from_caption = None /\ ~image_usable) => cell = StrVal(s_NA)
       /\ (image_caption = StrVal(s_1_5u_essa_e_boa) /\ from_image = StrVal(s_1))
            => cell = StrVal(<<"1", ",", "5">>)
       /\ (image_caption = None /\ from_image = StrVal(s_1)) => cell = StrVal(<<"1">>)

C4_Witness ==
  /\ pc = "confirm"
  /\ success_write
  /\ image_caption = StrVal(s_1_5u_essa_e_boa)
  /\ data_from_gemini.d["unidade_imagem"] = StrVal(s_1)
  /\ LastOf(calls).values[6] = StrVal(<<"1", ",", "5">>)

(* ------------------------- C5 ------------------------------------------ *)
(* chars[i..j] is a numeric token: digits, or digits, a separator, digits *)
NumericToken(chars, i, j) ==
  /\ i <= j
  /\ IsDigit(chars[i]) /\ IsDigit(chars[j])
  /\ \A k \in i..j : IsDigit(chars[k]) \/ IsSep(chars[k])
  /\ Cardinality({k \in i..j : IsSep(chars[k])}) <= 1

(* a mention: a numeric token that no digit and no separator extends,     *)
(* followed, after optional white space, by a unit word                   *)
UnitMention(chars, i, j) ==
  /\ NumericToken(chars, i, j)
  /\ i = 1 \/ ~(IsDigit(chars[i - 1]) \/ IsSep(chars[i - 1]))
  /\ \E k \in (j + 1)..Len(chars) :
       /\ IsU(chars[k])
       /\ \A m \in (j + 1)..(k - 1) : IsSpace(chars[m])

MentionedValues(chars) ==
  {float(replace(SubSeq(chars, i, j), ",", ".")) :
     <<i, j>> \in {p \in (1..Len(chars)) \X (1..Len(chars)) : UnitMention(chars, p[1], p[2])}}

(* a plain decimal: "1" for one, "1.5" for one and a half *)
PlainDecimal(f) == IF f % Scale = 0 THEN DigitsOf(f \div Scale) ELSE FloatStr(f)

(* C5: for a caption that mentions units, extract_unit_from_caption       *)
(* returns the largest mentioned value as a plain decimal string, "1" for *)
(* "0.5u ganhar até 1u"; for a null or empty caption and for one without  *)
(* a mention it returns null.                                             *)
C5_LargestUnitAsPlainDecimal ==
  pc = "confirm" =>
    LET values == IF image_caption = None THEN {} ELSE MentionedValues(image_caption.s)
    IN IF values = {} THEN unidade_da_legenda = None
       ELSE unidade_da_legenda =
              StrVal(PlainDecimal(CHOOSE v \in values : \A w \in values : w <= v))

(* ------------------------- C6 ------------------------------------------ *)
TextOf(v) == IF v \in {Missing, None} THEN <<>> ELSE v.s

(* the visible texts, the description and the event, joined and lower-cased *)
Haystack(d) ==
  LET visible == d["todos_textos_visiveis"]
      texts == IF visible.t = "list" THEN visible.l ELSE <<>>
  IN lower(join(<<" ">>, texts \o <<TextOf(d["aposta_descricao_completa"]),
                                   TextOf(d["evento_times"])>>))

(* C6: the bookmaker cell follows the ordered rules: a recognised guess   *)
(* of the model is kept whatever the texts hold; else "+ adicionar" in    *)
(* the texts gives Superbet, also beside "crear apuesta", "bet builder"   *)
(* or "stake"; else one of those three gives Bet365.                      *)
C6_BookmakerFirstMatchWins ==
  \A i \in WriteCalls :
    LET d == data_from_gemini.d
        cell == calls[i].values[4]
        adicionar == Contains(Haystack(d), s_mais_adicionar)
        bet365 == \E w \in {s_crear_apuesta, s_bet_builder, s_stake} : Contains(Haystack(d), w)
    IN /\ RecognisedGuess(d) => cell = d["casa_de_aposta_tentativa_gemini"]
       /\ (~RecognisedGuess(d) /\ adicionar) => cell = StrVal(s_Superbet)
       /\ (~RecognisedGuess(d) /\ ~adicionar /\ bet365) => cell = StrVal(s_Bet365)

C6_Witness ==
  /\ pc = "confirm"
  /\ data_from_gemini.d["casa_de_aposta_tentativa_gemini"] = StrVal(s_A_Definir)
  /\ data_from_gemini.d["todos_textos_visiveis"] = ListVal(<<s_BET_BUILDER, s_Mais_Adicionar>>)
  /\ data_from_gemini.d["aposta_descricao_completa"] = StrVal(s_Stake)
  /\ LastOf(calls).values[4] = StrVal(s_Superbet)

(* ------------------------- C9 ------------------------------------------ *)
(* "hoje" in any letter case *)
HojeLetters == <<{"h", "H"}, {"o", "O"}, {"j", "J"}, {"e", "E"}>>
MentionsHoje(chars) ==
  \E i \in 0..(Len(chars) - 4) : \A k \in 1..4 : chars[i + k] \in HojeLetters[k]

(* the day of datetime.now() as DD/MM/YY *)
TodayText ==
  IF now = 1 THEN <<"0", "4", "/", "1", "1", "/", "2", "6">>
  ELSE <<"0", "5", "/", "1", "1", "/", "2", "6">>

(* C9: the date cell of a row, the second, is the day of the write as     *)
(* DD/MM/YY when the model's date text is missing, null, empty or holds   *)
(* "hoje" in any letter case, and the model's text as it is otherwise; it *)
(* is a text and not empty.                                               *)
C9_DateCell ==
  [][(pc = "write" /\ pc' = "confirm") =>
       LET cell == LastOf(calls').values[2]
           text == data_from_gemini.d["data_hora_evento_imagem"]
       IN /\ cell.t = "str"
          /\ cell.s # <<>>
          /\ IF text \in {Missing, None} \/ text.s = <<>> \/ MentionsHoje(text.s)
               THEN cell.s = TodayText
               ELSE cell = text]_vars

C9_Witness ==
  /\ pc = "confirm"
  /\ now = 2
  /\ data_from_gemini.d["data_hora_evento_imagem"] = StrVal(s_HOJE)
  /\ LastOf(calls).values[2] = StrVal(<<"0", "5", "/", "1", "1", "/", "2", "6">>)
  /\ LastOf(calls).ret = 1

(* ------------------------- C7 ------------------------------------------ *)
LookupFailed == \E i \in LookupCalls : calls[i].ret = NoneRow

(* C7: when the inference model or the sheets service is not configured,  *)
(* or get_first_empty_row_in_col returns null, handle_image ends without  *)
(* a call of update_sheet_row and without a second lookup, and its last   *)
(* message tells which of the three failed.                               *)
C7_NoWriteWhenUnavailable ==
  (PhotoBegun /\ (~gemini_model \/ ~sheets_service \/ LookupFailed))
    => /\ pc = "idle"
       /\ WriteCalls = {}
       /\ Cardinality(LookupCalls) <= 1
       /\ replies # <<>>
       /\ LastOf(replies).msg =
            IF ~gemini_model THEN "no_model"
            ELSE IF ~sheets_service THEN "no_sheets"
            ELSE "no_row"
       /\ LookupFailed => LastOf(replies).tab = LastOf(calls).tab

C7_Witness ==
  /\ PhotoBegun
  /\ gemini_model
  /\ sheets_service
  /\ LookupFailed
  /\ ACTIVE_SHEET_TAB_NAME = s_Junho
  /\ ACTIVE_SHEET_TAB_NAME \notin DOMAIN sheet
  /\ LastOf(replies) = Reply("no_row", s_Junho, 0)

(* ------------------------- C8 ------------------------------------------ *)
s_Junho_2025 == <<"J", "u", "n", "h", "o", " ", "2", "0", "2", "5">>

(* C8: once main has set the active tab, it changes only in a change-tab  *)
(* command that carries an argument; that command sets it to the text of  *)
(* its arguments and has the headers of that tab provisioned; every other *)
(* update leaves it, and every lookup and write of handle_image is made   *)
(* in the active tab.                                                     *)
C8_ActiveTabChangesOnlyByCommand ==
  [][pc # "main" =>
       LET taken == n_updates' = n_updates + 1
           change == taken /\ update'.kind = "pagina" /\ update'.args # <<>>
       IN /\ ACTIVE_SHEET_TAB_NAME' # ACTIVE_SHEET_TAB_NAME => change
          /\ change =>
               /\ ACTIVE_SHEET_TAB_NAME' = join(<<" ">>, update'.args)
               /\ update'.args = <<s_Junho, s_2025>> => ACTIVE_SHEET_TAB_NAME' = s_Junho_2025
               /\ cmd_calls' = <<Call("ensure_sheet_headers", ACTIVE_SHEET_TAB_NAME', 1, <<>>, 0)>>
          /\ (calls' # calls /\ calls' # <<>>) => LastOf(calls').tab = ACTIVE_SHEET_TAB_NAME]_vars

C8_Witness ==
  /\ ACTIVE_SHEET_TAB_NAME = s_Junho_2025
  /\ pc = "confirm"
  /\ success_write
  /\ LastOf(calls).tab = s_Junho_2025
  /\ cmd_calls = <<Call("ensure_sheet_headers", s_Junho_2025, 1, <<>>, 0)>>

(* ------------------------- C10 ----------------------------------------- *)
(* C10: within one image event the tab of the row lookup, the tab of the  *)
(* row write and the tab named in the closing message are one tab, and    *)
(* the row written is the row the lookup returned.                        *)
C10_OneTabPerImageEvent ==
  /\ \A i, j \in 1..Len(calls) : calls[i].tab = calls[j].tab
  /\ \A i \in WriteCalls : \E j \in LookupCalls : j < i /\ calls[j].ret = calls[i].row
  /\ \A r \in 1..Len(replies) :
       replies[r].msg \in {"no_row", "added", "write_failed"}
         => /\ \A i \in 1..Len(calls) : calls[i].tab = replies[r].tab
            /\ replies[r].msg = "added" => replies[r].row = LastOf(calls).row

C10_Witness ==
  /\ pc = "idle"
  /\ update.kind = "photo"
  /\ Len(calls) = 2
  /\ calls[1].tab = s_Junho
  /\ calls[2].ret = 1
  /\ LastOf(replies) = Reply("added", s_Junho, calls[1].ret)


(* ------------------------- C11 ----------------------------------------- *)
HoldsValue(cells, i) == i \in 1..Len(cells) /\ cells[i] # <<>>

(* the step of handle_image on which update_sheet_row returns True *)
SuccessfulWriteStep == pc = "write" /\ pc' = "confirm" /\ success_write'

(* A successful image event writes one row of the active tab, the row     *)
(* after the last that holds a value in column B, which is above every    *)
(* row written before, and leaves a value in its column B; the other      *)
(* steps of an image event write nothing.                                 *)
WritesOneRowAfterTheLast ==
  /\ SuccessfulWriteStep =>
       LET tab == ACTIVE_SHEET_TAB_NAME
           row == target_row_number
       IN /\ tab \in DOMAIN sheet /\ DOMAIN sheet' = DOMAIN sheet
          /\ row = Len(sheet[tab]) + 1
          /\ \A i \in 1..Len(sheet[tab]) : HoldsValue(sheet[tab], i) => i < row
          /\ row = 1 \/ HoldsValue(sheet[tab], row - 1)
          /\ Len(sheet'[tab]) = row
          /\ HoldsValue(sheet'[tab], row)
          /\ \A i \in 1..Len(sheet[tab]) : sheet'[tab][i] = sheet[tab][i]
          /\ \A t \in DOMAIN sheet \ {tab} : sheet'[t] = sheet[t]
  /\ (pc \in {"handle_image", "lookup", "write", "confirm"} /\ ~SuccessfulWriteStep)
       => sheet' = sheet

(* no step changes a row that holds a value in column B *)
NoRowOverwritten ==
  \A t \in DOMAIN sheet : \A i \in 1..Len(sheet[t]) :
    HoldsValue(sheet[t], i) => t \in DOMAIN sheet' /\ HoldsValue(sheet'[t], i)
                                 /\ sheet'[t][i] = sheet[t][i]

(* C11: under any sequence of image events and tab changes handled one at *)
(* a time the ledger is append-only: each successful image event writes   *)
(* exactly one row, the row after the last row of the active tab with a   *)
(* value in column B, with a date that is not empty, so a later event on  *)
(* the tab writes a greater row; and no row that holds a value in column  *)
(* B is ever overwritten.                                                 *)
C11_LedgerIsAppendOnly == [][WritesOneRowAfterTheLast /\ NoRowOverwritten]_vars

(* the part of C11 that is about the image events alone *)
ImageEventsAppend == [][WritesOneRowAfterTheLast]_vars

(* an image event has written row 2 of a tab, below a row it left alone *)
ImageEventsAppend_Witness ==
  /\ pc = "confirm" /\ success_write /\ target_row_number = 2
  /\ HoldsValue(sheet[ACTIVE_SHEET_TAB_NAME], 1)
  /\ HoldsValue(sheet[ACTIVE_SHEET_TAB_NAME], 2)
====
